---------------------------- MODULE Spec2Model ----------------------------
(***************************************************************************)
(* The Northwind dashboard page (src/pages/Dashboard_northwin.py): the     *)
(* query executor, the three aggregation queries and the script run of     *)
(* main() with its two multiselect filters.                                *)
(*                                                                         *)
(* Names (countries, category names, product names) are numbers; money is  *)
(* fixed point: UnitPrice in hundredths, Discount in hundredths, amounts   *)
(* before ROUND(.., 2) in ten-thousandths, amounts after it in hundredths. *)
(***************************************************************************)
EXTENDS Integers, Sequences, FiniteSets

VARIABLES
    \* the backing store (read-only) and the engine's order among equal sort keys
    Customer, Order, OrderDetail, Product, Category, tieOrder,
    \* main()'s position and locals
    pc, sales_by_country, profit_by_category, top_selling_products,
    selected_countries, selected_categories,
    filtered_country_sales, filtered_category_profit,
    \* the page: widget values kept across script runs, elements shown by this run
    session_state, rendered,
    \* the last execute_query call, and counters over the page's lifetime
    lastCall, openConns, queryCount, reruns

store == <<Customer, Order, OrderDetail, Product, Category, tieOrder>>
locals == <<sales_by_country, profit_by_category, top_selling_products,
            selected_countries, selected_categories,
            filtered_country_sales, filtered_category_profit>>
vars == <<store, pc, locals, session_state, rendered,
          lastCall, openConns, queryCount, reruns>>

-----------------------------------------------------------------------------
(* Bounds of the model *)

MaxLineItems == 3
MaxCustomers == 3
MaxCountries == 7
MaxProducts == 11
MaxReruns == 2

(* Program constants *)

TopLimit == 10
DefaultCountries == 5

\* SQL NULL / pandas missing value of a name column; names are 1, 2, ...
NULL == 0

-----------------------------------------------------------------------------
(* The SQL engine: sums, ROUND, ORDER BY .. DESC, LIMIT *)

RECURSIVE SumGross(_)
\* SUM(od.UnitPrice * od.Quantity) over line items S, in hundredths
SumGross(S) ==
    IF S = {} THEN 0
    ELSE LET d == CHOOSE x \in S : TRUE
         IN OrderDetail[d].UnitPrice * OrderDetail[d].Quantity + SumGross(S \ {d})

RECURSIVE SumDiscount(_)
\* SUM(od.UnitPrice * od.Quantity * od.Discount) over S, in ten-thousandths
SumDiscount(S) ==
    IF S = {} THEN 0
    ELSE LET d == CHOOSE x \in S : TRUE
         IN OrderDetail[d].UnitPrice * OrderDetail[d].Quantity * OrderDetail[d].Discount
              + SumDiscount(S \ {d})

RECURSIVE SumQuantity(_)
\* SUM(od.Quantity) over S
SumQuantity(S) ==
    IF S = {} THEN 0
    ELSE LET d == CHOOSE x \in S : TRUE
         IN OrderDetail[d].Quantity + SumQuantity(S \ {d})

\* ROUND(x, 2): x in ten-thousandths, the result in hundredths, half away from zero
Round2(x) == IF x >= 0 THEN (x + 50) \div 100 ELSE 0 - ((50 - x) \div 100)

\* The engine's order among rows whose sort keys are equal (unspecified by SQL)
TieBefore(a, b) == IF tieOrder = "asc" THEN a < b ELSE a > b

RECURSIVE OrderByAsc(_, _, _)
\* Faulty variant of OrderByDesc: the rows in ascending order of metric
OrderByAsc(S, metric, key) ==
    IF S = {} THEN <<>>
    ELSE LET first == CHOOSE r \in S : \A s \in S \ {r} :
                          \/ r[metric] < s[metric]
                          \/ r[metric] = s[metric] /\ TieBefore(r[key], s[key])
         IN <<first>> \o OrderByAsc(S \ {first}, metric, key)

RECURSIVE OrderByDesc(_, _, _)
\* ORDER BY metric DESC over the grouped rows S (one row per key)
OrderByDesc(S, metric, key) ==
    IF S = {} THEN <<>>
    ELSE LET first == CHOOSE r \in S : \A s \in S \ {r} :
                          \/ r[metric] > s[metric]
                          \/ r[metric] = s[metric] /\ TieBefore(r[key], s[key])
         IN <<first>> \o OrderByDesc(S \ {first}, metric, key)

\* Faulty variant of Limit: one row too many
LimitOffByOne(rows, n) == IF Len(rows) <= n + 1 THEN rows ELSE SubSeq(rows, 1, n + 1)

\* LIMIT n
Limit(rows, n) == IF Len(rows) <= n THEN rows ELSE SubSeq(rows, 1, n)

-----------------------------------------------------------------------------
(* The three aggregation queries *)

\* [Order] o JOIN Customer cu JOIN OrderDetail od: the line items that join
SalesJoin ==
    {d \in DOMAIN OrderDetail :
        /\ OrderDetail[d].OrderId \in DOMAIN Order
        /\ Order[OrderDetail[d].OrderId].CustomerId \in DOMAIN Customer}

CountryOf(d) == Customer[Order[OrderDetail[d].OrderId].CustomerId].Country

SalesGroup(c) == {d \in SalesJoin : CountryOf(d) = c}

SalesRow(c) ==
    [Country |-> c,
     TotalSales |-> Round2(100 * SumGross(SalesGroup(c))),
     TotalOrders |-> Cardinality({OrderDetail[d].OrderId : d \in SalesGroup(c)})]

SalesByCountrySql ==
    [columns |-> <<"Country", "TotalSales", "TotalOrders">>,
     rows |-> OrderByDesc({SalesRow(c) : c \in {CountryOf(d) : d \in SalesJoin}},
                          "TotalSales", "Country")]

\* OrderDetail od JOIN Product p: the line items that join
ProductJoin == {d \in DOMAIN OrderDetail : OrderDetail[d].ProductId \in DOMAIN Product}

\* OrderDetail od JOIN Product p JOIN Category c
CategoryJoin == {d \in ProductJoin : Product[OrderDetail[d].ProductId].CategoryId \in DOMAIN Category}

CategoryNameOf(d) == Category[Product[OrderDetail[d].ProductId].CategoryId].CategoryName

CategoryGroup(k) == {d \in CategoryJoin : CategoryNameOf(d) = k}

\* Faulty variant of ProfitRow: the discounts are not subtracted
ProfitRowGross(k) ==
    [CategoryName |-> k, Profit |-> Round2(100 * SumGross(CategoryGroup(k)))]

ProfitRow(k) ==
    [CategoryName |-> k,
     Profit |-> Round2(100 * SumGross(CategoryGroup(k)) - SumDiscount(CategoryGroup(k)))]

ProfitByCategorySql ==
    [columns |-> <<"CategoryName", "Profit">>,
     rows |-> OrderByDesc({ProfitRow(k) : k \in {CategoryNameOf(d) : d \in CategoryJoin}},
                          "Profit", "CategoryName")]

ProductNameOf(d) == Product[OrderDetail[d].ProductId].ProductName

ProductGroup(p) == {d \in ProductJoin : ProductNameOf(d) = p}

TopRow(p) ==
    [ProductName |-> p,
     TotalSold |-> SumQuantity(ProductGroup(p)),
     TotalRevenue |-> Round2(100 * SumGross(ProductGroup(p)))]

TopSellingProductsSql ==
    [columns |-> <<"ProductName", "TotalSold", "TotalRevenue">>,
     rows |-> Limit(OrderByDesc({TopRow(p) : p \in {ProductNameOf(d) : d \in ProductJoin}},
                                "TotalSold", "ProductName"),
                    TopLimit)]

\* pd.read_sql_query(query, conn): the statement's rows as a table
ReadSqlQuery(query) ==
    CASE query = "sales_by_country" -> SalesByCountrySql
      [] query = "profit_by_category" -> ProfitByCategorySql
      [] query = "top_selling_products" -> TopSellingProductsSql

-----------------------------------------------------------------------------
(* execute_query *)

\* pd.DataFrame(): no rows, no columns
EmptyDataFrame == [columns |-> <<>>, rows |-> <<>>]

\* What the store does to one call: sqlite3.connect raises, pd.read_sql_query
\* raises, or both succeed
Outcomes == {"ok", "connect_fails", "read_fails"}

NoCall ==
    [query |-> "none", outcome |-> "none", df |-> EmptyDataFrame, connects |-> 0,
     opened |-> 0, closed |-> 0, closeUnbound |-> 0, errors |-> 0, raised |-> FALSE]

\* Faulty variant of ExecuteQuery: conn.close() after the read instead of in finally
ExecuteQueryCloseAfterRead(query, outcome) ==
    LET connected == outcome # "connect_fails"
        readOk == connected /\ outcome = "ok"
    IN [query |-> query,
        outcome |-> outcome,
        df |-> IF readOk THEN ReadSqlQuery(query) ELSE EmptyDataFrame,
        connects |-> 1,
        opened |-> IF connected THEN 1 ELSE 0,
        closed |-> IF readOk THEN 1 ELSE 0,
        closeUnbound |-> 0,
        errors |-> IF readOk THEN 0 ELSE 1,
        raised |-> FALSE]

\* Faulty variant of ExecuteQuery: the handler reports the error and raises it again
ExecuteQueryReraise(query, outcome) ==
    LET connected == outcome # "connect_fails"
        readOk == connected /\ outcome = "ok"
    IN [query |-> query,
        outcome |-> outcome,
        df |-> IF readOk THEN ReadSqlQuery(query) ELSE EmptyDataFrame,
        connects |-> 1,
        opened |-> IF connected THEN 1 ELSE 0,
        closed |-> IF connected THEN 1 ELSE 0,
        closeUnbound |-> 0,
        errors |-> IF readOk THEN 0 ELSE 1,
        raised |-> ~readOk]

\* execute_query(query) with the store behaving as `outcome`; the record is the
\* call's trace: the table returned, sqlite3.connect calls and connections
\* opened, conn.close() calls on an opened connection and with conn unbound,
\* st.error messages, and whether an exception left the call.
\* params is None in every call of the page, so line 65 is the read that runs.
ExecuteQuery(query, outcome) ==
    LET connected == outcome # "connect_fails"             \* line 59 binds conn
        readOk == connected /\ outcome = "ok"               \* lines 62-65
        caught == ~readOk                                   \* line 68
        inLocals == connected                               \* line 73
    IN [query |-> query,
        outcome |-> outcome,
        df |-> IF readOk THEN ReadSqlQuery(query) ELSE EmptyDataFrame,
        connects |-> 1,
        opened |-> IF connected THEN 1 ELSE 0,
        closed |-> IF inLocals THEN 1 ELSE 0,
        closeUnbound |-> 0,
        errors |-> IF caught THEN 1 ELSE 0,
        raised |-> FALSE]

\* The effect of one execute_query call on the page's counters
Called(call) ==
    /\ lastCall' = call
    /\ openConns' = openConns + call.opened - call.closed
    /\ queryCount' = queryCount + 1

-----------------------------------------------------------------------------
(* pandas and the multiselect widget *)

HasColumn(df, c) == \E i \in 1..Len(df.columns) : df.columns[i] = c

Column(df, c) == [i \in 1..Len(df.rows) |-> df.rows[i][c]]

NotNull(v) == v # NULL

\* Series.dropna()
DropNa(col) == SelectSeq(col, NotNull)

RECURSIVE Unique(_)
\* Series.unique(): the values in order of first appearance
Unique(col) ==
    IF col = <<>> THEN <<>>
    ELSE LET front == Unique(SubSeq(col, 1, Len(col) - 1))
             last == col[Len(col)]
         IN IF \E i \in 1..Len(front) : front[i] = last THEN front
            ELSE Append(front, last)

\* seq[:n]
FirstN(seq, n) == IF Len(seq) <= n THEN seq ELSE SubSeq(seq, 1, n)

ToSet(seq) == {seq[i] : i \in 1..Len(seq)}

\* DataFrame.empty
IsEmpty(df) == Len(df.rows) = 0 \/ Len(df.columns) = 0

\* Faulty variant of Isin: an empty selection filters nothing
IsinAllWhenEmpty(df, c, selected) ==
    [columns |-> df.columns,
     rows |-> SelectSeq(df.rows, LAMBDA r : selected = {} \/ r[c] \in selected)]

\* df[df[c].isin(selected)]
Isin(df, c, selected) ==
    [columns |-> df.columns,
     rows |-> SelectSeq(df.rows, LAMBDA r : r[c] \in selected)]

\* Faulty variant of CountryOptions: the missing country is offered too
CountryOptionsWithNa(df) == Unique(Column(df, "Country"))

CountryOptions(df) == Unique(DropNa(Column(df, "Country")))

\* Faulty variant of CountryDefault: the first rows, then those with a country
CountryDefaultHeadFirst(df) == DropNa(FirstN(Unique(Column(df, "Country")), DefaultCountries))

CountryDefault(df) == FirstN(Unique(DropNa(Column(df, "Country"))), DefaultCountries)

CategoryOptions(df) == Unique(Column(df, "CategoryName"))

CategoryDefault(df) == Unique(Column(df, "CategoryName"))

\* st.multiselect(.., default, key): the default on the session's first run, the
\* value kept in the session state afterwards
Multiselect(key, default) ==
    IF session_state[key].set THEN session_state[key].value ELSE ToSet(default)

Unset == [set |-> FALSE, value |-> {}]

-----------------------------------------------------------------------------
(* main(): one script run *)

\* Faulty variant of ScriptRun: the three tables are kept from the run before
ScriptRunCached ==
    /\ pc' = "country_filter"
    /\ selected_countries' = {}
    /\ selected_categories' = {}
    /\ filtered_country_sales' = EmptyDataFrame
    /\ filtered_category_profit' = EmptyDataFrame
    /\ rendered' = {"title"}
    /\ UNCHANGED <<sales_by_country, profit_by_category, top_selling_products,
                   lastCall, openConns, queryCount>>

\* The script starts over (line 216): main()'s locals and the run's elements
\* are new, the session state is kept
ScriptRun ==
    /\ pc' = "load_sales"
    /\ sales_by_country' = EmptyDataFrame
    /\ profit_by_category' = EmptyDataFrame
    /\ top_selling_products' = EmptyDataFrame
    /\ selected_countries' = {}
    /\ selected_categories' = {}
    /\ filtered_country_sales' = EmptyDataFrame
    /\ filtered_category_profit' = EmptyDataFrame
    /\ rendered' = {"title"}
    /\ UNCHANGED <<lastCall, openConns, queryCount>>

\* line 127
LoadSalesByCountry ==
    /\ pc = "load_sales"
    /\ \E outcome \in Outcomes :
         LET call == ExecuteQuery("sales_by_country", outcome)
         IN /\ Called(call)
            /\ sales_by_country' = call.df
            /\ pc' = IF call.raised THEN "crashed" ELSE "load_profit"
    /\ UNCHANGED <<store, profit_by_category, top_selling_products,
                   selected_countries, selected_categories, filtered_country_sales,
                   filtered_category_profit, session_state, rendered, reruns>>

\* line 128
LoadProfitByCategory ==
    /\ pc = "load_profit"
    /\ \E outcome \in Outcomes :
         LET call == ExecuteQuery("profit_by_category", outcome)
         IN /\ Called(call)
            /\ profit_by_category' = call.df
            /\ pc' = IF call.raised THEN "crashed" ELSE "load_top"
    /\ UNCHANGED <<store, sales_by_country, top_selling_products,
                   selected_countries, selected_categories, filtered_country_sales,
                   filtered_category_profit, session_state, rendered, reruns>>

\* line 129
LoadTopSellingProducts ==
    /\ pc = "load_top"
    /\ \E outcome \in Outcomes :
         LET call == ExecuteQuery("top_selling_products", outcome)
         IN /\ Called(call)
            /\ top_selling_products' = call.df
            /\ pc' = IF call.raised THEN "crashed" ELSE "country_filter"
    /\ UNCHANGED <<store, sales_by_country, profit_by_category,
                   selected_countries, selected_categories, filtered_country_sales,
                   filtered_category_profit, session_state, rendered, reruns>>

\* lines 138-144; sales_by_country['Country'] raises KeyError on a table
\* without that column
CountryFilter ==
    /\ pc = "country_filter"
    /\ IF HasColumn(sales_by_country, "Country")
       THEN /\ selected_countries' =
                   Multiselect("country_filter", CountryDefault(sales_by_country))
            /\ session_state' = [session_state EXCEPT !["country_filter"] =
                   [set |-> TRUE, value |-> selected_countries']]
            /\ rendered' = rendered \cup {"country_filter"}
            /\ pc' = "category_filter"
       ELSE /\ pc' = "crashed"
            /\ UNCHANGED <<selected_countries, session_state, rendered>>
    /\ UNCHANGED <<store, sales_by_country, profit_by_category, top_selling_products,
                   selected_categories, filtered_country_sales,
                   filtered_category_profit, lastCall, openConns, queryCount, reruns>>

\* lines 147-153
CategoryFilter ==
    /\ pc = "category_filter"
    /\ IF HasColumn(profit_by_category, "CategoryName")
       THEN /\ selected_categories' =
                   Multiselect("category_filter", CategoryDefault(profit_by_category))
            /\ session_state' = [session_state EXCEPT !["category_filter"] =
                   [set |-> TRUE, value |-> selected_categories']]
            /\ rendered' = rendered \cup {"category_filter"}
            /\ pc' = "filtering"
       ELSE /\ pc' = "crashed"
            /\ UNCHANGED <<selected_categories, session_state, rendered>>
    /\ UNCHANGED <<store, sales_by_country, profit_by_category, top_selling_products,
                   selected_countries, filtered_country_sales,
                   filtered_category_profit, lastCall, openConns, queryCount, reruns>>

\* lines 158-159
Filtering ==
    /\ pc = "filtering"
    /\ filtered_country_sales' = Isin(sales_by_country, "Country", selected_countries)
    /\ filtered_category_profit' =
           Isin(profit_by_category, "CategoryName", selected_categories)
    /\ pc' = "country_chart"
    /\ UNCHANGED <<store, sales_by_country, profit_by_category, top_selling_products,
                   selected_countries, selected_categories, session_state, rendered,
                   lastCall, openConns, queryCount, reruns>>

\* lines 165-180
CountryChart ==
    /\ pc = "country_chart"
    /\ rendered' = rendered \cup
           (IF ~IsEmpty(filtered_country_sales) THEN {"country_chart"}
            ELSE {"country_warning"})
    /\ pc' = "category_chart"
    /\ UNCHANGED <<store, locals, session_state, lastCall, openConns, queryCount, reruns>>

\* lines 183-196
CategoryChart ==
    /\ pc = "category_chart"
    /\ rendered' = rendered \cup
           (IF ~IsEmpty(filtered_category_profit) THEN {"category_chart"}
            ELSE {"category_warning"})
    /\ pc' = "top_table"
    /\ UNCHANGED <<store, locals, session_state, lastCall, openConns, queryCount, reruns>>

\* lines 199-203; the Styler of a table without rows has no cell to colour
TopTable ==
    /\ pc = "top_table"
    /\ rendered' = rendered \cup {"top_table"}
    /\ pc' = "metrics"
    /\ UNCHANGED <<store, locals, session_state, lastCall, openConns, queryCount, reruns>>

\* lines 206-212
Metrics ==
    /\ pc = "metrics"
    /\ rendered' = rendered \cup {"metric_countries", "metric_categories"}
    /\ pc' = "done"
    /\ UNCHANGED <<store, locals, session_state, lastCall, openConns, queryCount, reruns>>

-----------------------------------------------------------------------------
(* The user: one interaction with a multiselect the run has shown adds an    *)
(* option, removes one, or clears the selection; the page host then runs the *)
(* script again.                                                             *)

Interactions(current, options) ==
    ({current \ {v} : v \in current} \cup {current \cup {v} : v \in options \ current}
        \cup {{}}) \ {current}

ChangeCountryFilter ==
    /\ pc \in {"done", "crashed"}
    /\ "country_filter" \in rendered
    /\ reruns < MaxReruns
    /\ \E new \in Interactions(session_state["country_filter"].value,
                               ToSet(CountryOptions(sales_by_country))) :
         session_state' = [session_state EXCEPT !["country_filter"].value = new]
    /\ reruns' = reruns + 1
    /\ ScriptRun
    /\ UNCHANGED store

ChangeCategoryFilter ==
    /\ pc \in {"done", "crashed"}
    /\ "category_filter" \in rendered
    /\ reruns < MaxReruns
    /\ \E new \in Interactions(session_state["category_filter"].value,
                               ToSet(CategoryOptions(profit_by_category))) :
         session_state' = [session_state EXCEPT !["category_filter"].value = new]
    /\ reruns' = reruns + 1
    /\ ScriptRun
    /\ UNCHANGED store

-----------------------------------------------------------------------------
(* Initial states *)

\* main() after its first k loads, each of which succeeded; k = 0 is the page
\* as a session opens it, the script about to call main()
AfterLoads(k) ==
    /\ pc = <<"load_sales", "load_profit", "load_top">>[k + 1]
    /\ sales_by_country = IF k >= 1 THEN SalesByCountrySql ELSE EmptyDataFrame
    /\ profit_by_category = IF k >= 2 THEN ProfitByCategorySql ELSE EmptyDataFrame
    /\ top_selling_products = EmptyDataFrame
    /\ selected_countries = {}
    /\ selected_categories = {}
    /\ filtered_country_sales = EmptyDataFrame
    /\ filtered_category_profit = EmptyDataFrame
    /\ session_state = [country_filter |-> Unset, category_filter |-> Unset]
    /\ rendered = {"title"}
    /\ lastCall = CASE k = 0 -> NoCall
                    [] k = 1 -> ExecuteQuery("sales_by_country", "ok")
                    [] k = 2 -> ExecuteQuery("profit_by_category", "ok")
    /\ openConns = 0
    /\ queryCount = k
    /\ reruns = 0

PageInit == AfterLoads(0)

Quantities == {1, 2}

\* Stores of the page's runs: up to `most` customers, each in a country of its
\* own (the first one possibly without a country), one order of one line item
\* each, over two products in two categories
PageStore(most) ==
    /\ \E n \in 0..most, nullFirst \in BOOLEAN, qty \in [1..most -> Quantities] :
         /\ \A i \in 1..most : i > n => qty[i] = 1
         /\ nullFirst => n > 0
         /\ Customer = [i \in 1..n |->
                          [Country |-> IF i = 1 /\ nullFirst THEN NULL ELSE i]]
         /\ Order = [i \in 1..n |-> [CustomerId |-> i]]
         /\ OrderDetail = [i \in 1..n |->
                             [OrderId |-> i, ProductId |-> 1 + (i % 2), UnitPrice |-> 100,
                              Quantity |-> qty[i], Discount |-> 0]]
    /\ Product = [p \in 1..2 |-> [ProductName |-> p, CategoryId |-> p]]
    /\ Category = [k \in 1..2 |-> [CategoryName |-> k]]
    /\ tieOrder \in {"asc", "desc"}

Init == PageStore(MaxCustomers) /\ PageInit

\* The first script run of a session, over stores of up to MaxCountries countries
InitFirstRun == PageStore(MaxCountries) /\ PageInit

\* One script run, from the loads to the last element
Run ==
    \/ LoadSalesByCountry
    \/ LoadProfitByCategory
    \/ LoadTopSellingProducts
    \/ CountryFilter
    \/ CategoryFilter
    \/ Filtering
    \/ CountryChart
    \/ CategoryChart
    \/ TopTable
    \/ Metrics

Next ==
    \/ Run
    \/ ChangeCountryFilter
    \/ ChangeCategoryFilter

Spec == Init /\ [][Next]_vars

SpecFirstRun == InitFirstRun /\ [][Run]_vars

-----------------------------------------------------------------------------
(* The queries over stores of a few rows *)

\* Two customers, each with or without a country; two orders, each of one of
\* them or of a customer the store does not hold; up to MaxLineItems line items
InitCountry ==
    /\ Customer \in [1..2 -> [Country : {NULL, 1, 2}]]
    /\ Order \in [1..2 -> [CustomerId : 1..3]]
    /\ \E n \in 0..MaxLineItems :
         OrderDetail \in [1..n -> [OrderId : 1..2, ProductId : {1}, UnitPrice : {100},
                                   Quantity : Quantities, Discount : {0}]]
    /\ Product = [p \in 1..1 |-> [ProductName |-> p, CategoryId |-> p]]
    /\ Category = [k \in 1..1 |-> [CategoryName |-> k]]
    /\ tieOrder \in {"asc", "desc"}
    /\ AfterLoads(0)

SpecCountry == InitCountry /\ [][LoadSalesByCountry]_vars

\* Two products, the second in either category or in one the store does not
\* hold; two categories, of the same name or not; up to MaxLineItems line items,
\* with or without a discount
InitCategory ==
    /\ Customer = [i \in 1..1 |-> [Country |-> i]]
    /\ Order = [i \in 1..1 |-> [CustomerId |-> i]]
    /\ \E n \in 0..MaxLineItems :
         OrderDetail \in [1..n -> [OrderId : {1}, ProductId : 1..2, UnitPrice : {10},
                                   Quantity : Quantities, Discount : {0, 25}]]
    /\ \E c \in 1..3 :
         Product = [p \in 1..2 |-> [ProductName |-> p, CategoryId |-> IF p = 1 THEN 1 ELSE c]]
    /\ \E k2 \in 1..2 :
         Category = [k \in 1..2 |-> [CategoryName |-> IF k = 1 THEN 1 ELSE k2]]
    /\ tieOrder \in {"asc", "desc"}
    /\ AfterLoads(1)

SpecCategory == InitCategory /\ [][LoadProfitByCategory]_vars

\* Up to MaxProducts products of one line item each, at most two of them sold
\* twice and the others once, the second one possibly of the first one's name
InitTop ==
    /\ Customer = [i \in 1..1 |-> [Country |-> i]]
    /\ Order = [i \in 1..1 |-> [CustomerId |-> i]]
    /\ \E n \in 0..MaxProducts, sameName \in BOOLEAN :
         \E twice \in {t \in SUBSET (1..n) : Cardinality(t) <= 2} :
           /\ sameName => n > 1
           /\ Product = [p \in 1..n |->
                           [ProductName |-> IF p = 2 /\ sameName THEN 1 ELSE p,
                            CategoryId |-> 1]]
           /\ OrderDetail = [i \in 1..n |->
                               [OrderId |-> 1, ProductId |-> i, UnitPrice |-> 100,
                                Quantity |-> IF i \in twice THEN 2 ELSE 1,
                                Discount |-> 0]]
    /\ Category = [k \in 1..1 |-> [CategoryName |-> k]]
    /\ tieOrder \in {"asc", "desc"}
    /\ AfterLoads(2)

SpecTop == InitTop /\ [][LoadTopSellingProducts]_vars

-----------------------------------------------------------------------------
(* Properties of execute_query and of the page (Spec) *)

Failed(call) == call.outcome \in {"connect_fails", "read_fails"}

\* main()'s local that holds the table of `query`
LocalOf(query) ==
    CASE query = "sales_by_country" -> sales_by_country
      [] query = "profit_by_category" -> profit_by_category
      [] query = "top_selling_products" -> top_selling_products
      [] OTHER -> EmptyDataFrame

\* main() is past lines 158-159
Filtered == pc \in {"country_chart", "category_chart", "top_table", "metrics", "done"}

\* execute_query calls of the current script run
LoadsDone ==
    CASE pc = "load_sales" -> 0
      [] pc = "load_profit" -> 1
      [] pc = "load_top" -> 2
      [] OTHER -> 3

\* C1: when execute_query returns, on every exit path, the connection the call
\* opened has been closed exactly once, close was not attempted on a connection
\* that was never opened, and no connection is left open.
C1_ConnectionClosedOnEveryPath ==
    /\ openConns = 0
    /\ lastCall.query # "none" =>
         /\ lastCall.closed = lastCall.opened
         /\ lastCall.closeUnbound = 0
         /\ lastCall.opened = (IF lastCall.outcome = "connect_fails" THEN 0 ELSE 1)

\* C1 witness: a call whose read failed after the connection was opened
C1_Witness ==
    /\ lastCall.outcome = "read_fails"
    /\ lastCall.opened = 1
    /\ lastCall.closed = 1
    /\ queryCount = 3

\* C2: a load whose connect or read fails returns a table without rows and
\* without columns, raises nothing, shows exactly one error message and tries
\* the store once.
C2_FailureYieldsEmptyTable ==
    Failed(lastCall) =>
        /\ Len(lastCall.df.rows) = 0
        /\ Len(lastCall.df.columns) = 0
        /\ LocalOf(lastCall.query) = lastCall.df
        /\ ~lastCall.raised
        /\ lastCall.errors = 1
        /\ lastCall.connects = 1

\* C2 witness: the third load of a run fails to connect after the first two
\* loads succeeded
C2_Witness ==
    /\ lastCall.query = "top_selling_products"
    /\ lastCall.outcome = "connect_fails"
    /\ pc = "country_filter"
    /\ Len(sales_by_country.rows) > 0
    /\ top_selling_products = EmptyDataFrame

\* C3 (as claimed): however many filter changes occur, execute_query is called
\* three times in the page's lifetime.
C3_QueriesOnlyAtPageLoad == queryCount <= 3

\* C3 (amended): every script run, the first one and each one a filter change
\* starts, calls execute_query three times again.
C3_EveryRunQueriesAgain ==
    /\ queryCount = 3 * reruns + LoadsDone
    /\ pc = "done" => queryCount = 3 * (reruns + 1)

\* C3 witness: a run a filter change started, finished, with six or more calls
C3_Witness ==
    /\ reruns >= 1
    /\ pc = "done"
    /\ queryCount >= 6
    /\ session_state["country_filter"].value # ToSet(CountryDefault(sales_by_country))

HasNullCountry(df) == \E i \in 1..Len(df.rows) : df.rows[i].Country = NULL

\* C4 (as claimed): with every offered country selected, and with every offered
\* category selected, the filtered table is the query's table, the row of the
\* missing country included.
C4_FullSelectionReproducesTable ==
    Filtered =>
        /\ selected_countries = ToSet(CountryOptions(sales_by_country))
             => filtered_country_sales = sales_by_country
        /\ selected_categories = ToSet(CategoryOptions(profit_by_category))
             => filtered_category_profit = profit_by_category

\* C4 (amended): with every offered country selected the filtered table is the
\* query's table without the row of the missing country, the other rows in the
\* same order; with every offered category selected it is the query's table.
C4_FullSelectionDropsOnlyMissing ==
    Filtered =>
        /\ selected_countries = ToSet(CountryOptions(sales_by_country))
             => /\ filtered_country_sales.columns = sales_by_country.columns
                /\ filtered_country_sales.rows =
                       SelectSeq(sales_by_country.rows, LAMBDA r : r.Country # NULL)
        /\ selected_categories = ToSet(CategoryOptions(profit_by_category))
             => filtered_category_profit = profit_by_category

\* C4 witness: every offered country selected, over a table that has a row of
\* the missing country and rows of others
C4_Witness ==
    /\ Filtered
    /\ HasNullCountry(sales_by_country)
    /\ selected_countries = ToSet(CountryOptions(sales_by_country))
    /\ Len(filtered_country_sales.rows) > 1
    /\ Len(filtered_country_sales.rows) < Len(sales_by_country.rows)
    /\ selected_categories = ToSet(CategoryOptions(profit_by_category))

\* C5: with an empty selection the filtered table has no rows and the run goes
\* on to its end without raising: the chart is skipped for its warning, and the
\* other chart (or its warning), the table and the two counters are shown.
C5_EmptySelectionRenders ==
    /\ (Filtered /\ selected_countries = {}) => Len(filtered_country_sales.rows) = 0
    /\ (Filtered /\ selected_categories = {}) => Len(filtered_category_profit.rows) = 0
    /\ pc = "crashed" => "category_filter" \notin rendered
    /\ pc \in {"filtering", "country_chart", "category_chart", "top_table", "metrics"}
         => ENABLED Run
    /\ (pc = "done" /\ selected_countries = {}) =>
         /\ "country_chart" \notin rendered
         /\ {"country_warning", "top_table", "metric_countries", "metric_categories"}
               \subseteq rendered
         /\ selected_categories # {} => "category_chart" \in rendered
    /\ (pc = "done" /\ selected_categories = {}) =>
         /\ "category_chart" \notin rendered
         /\ {"category_warning", "top_table", "metric_countries", "metric_categories"}
               \subseteq rendered
         /\ selected_countries # {} => "country_chart" \in rendered

\* C5 witness: the user cleared the countries of a table that has rows
C5_Witness ==
    /\ pc = "done"
    /\ reruns >= 1
    /\ selected_countries = {}
    /\ Len(sales_by_country.rows) > 1
    /\ "country_warning" \in rendered
    /\ "category_chart" \in rendered

\* C9 (as claimed): when queries fail and their tables come back empty, main()
\* still runs to its end without raising.
C9_MainCompletesOnEmptyTables ==
    (Failed(lastCall) \/ Len(sales_by_country.columns) = 0) => pc # "crashed"

-----------------------------------------------------------------------------
(* The defaults of the filters on the first script run (SpecFirstRun) *)

\* The rows of the table that have a country, in the table's order
WithCountry(df) == SelectSeq(df.rows, LAMBDA r : r.Country # NULL)

\* C10: on the first run the selected countries are the first five countries of
\* load_sales_by_country()'s rows that are not missing (all when there are
\* fewer), none of the others has larger total sales than one of them, the
\* selected categories are all categories of load_profit_by_category()'s rows,
\* and both selections are among the options offered.
C10_DefaultSelections ==
    /\ "country_filter" \in rendered =>
         LET named == WithCountry(sales_by_country)
             most == IF Len(named) <= 5 THEN Len(named) ELSE 5
         IN /\ selected_countries = {named[i].Country : i \in 1..most}
            /\ Cardinality(selected_countries) = most
            /\ \A i \in 1..Len(named) : \A j \in 1..Len(named) :
                 (named[i].Country \in selected_countries
                    /\ named[j].Country \notin selected_countries)
                   => named[i].TotalSales >= named[j].TotalSales
            /\ selected_countries \subseteq ToSet(CountryOptions(sales_by_country))
    /\ "category_filter" \in rendered =>
         /\ selected_categories =
               {profit_by_category.rows[i].CategoryName :
                   i \in 1..Len(profit_by_category.rows)}
         /\ selected_categories \subseteq ToSet(CategoryOptions(profit_by_category))

\* C10 witness: more than five countries and the missing one among the first
\* five rows; five countries selected, both categories selected
C10_Witness ==
    /\ pc = "done"
    /\ Len(WithCountry(sales_by_country)) > 5
    /\ \E i \in 1..5 : sales_by_country.rows[i].Country = NULL
    /\ Cardinality(selected_countries) = 5
    /\ Cardinality(selected_categories) = 2

-----------------------------------------------------------------------------
(* The queries' results (SpecCountry, SpecCategory, SpecTop) *)

Returned(query) == lastCall.query = query /\ lastCall.outcome = "ok"

\* rows[i][metric] >= rows[i+1][metric] throughout
Descending(rows, metric) ==
    \A i \in 1..Len(rows) : i < Len(rows) => rows[i][metric] >= rows[i + 1][metric]

StrictlyDescending(rows, metric) ==
    \A i \in 1..Len(rows) : i < Len(rows) => rows[i][metric] > rows[i + 1][metric]

\* The rows of `rows` whose column c is v
RowsOf(rows, c, v) == {i \in 1..Len(rows) : rows[i][c] = v}

\* The orders of the customers of country c, and those that have a line item
OrdersOfCountry(c) ==
    {o \in DOMAIN Order : /\ Order[o].CustomerId \in DOMAIN Customer
                          /\ Customer[Order[o].CustomerId].Country = c}

OrdersWithItems(c) ==
    {o \in OrdersOfCountry(c) : \E d \in DOMAIN OrderDetail : OrderDetail[d].OrderId = o}

\* The countries and the categories that the joins of the queries reach
SellingCountries == {Customer[i].Country : i \in {j \in DOMAIN Customer :
                        OrdersWithItems(Customer[j].Country) # {}}}

\* C6 (as claimed): one row per customer country, total_sales strictly
\* descending (each row's larger than the next row's), total_orders the number
\* of distinct orders of the country. Countries and orders are read as those
\* with line items, the only ones the query joins.
C6_OneRowPerCountryStrictlyDescending ==
    Returned("sales_by_country") =>
        LET rows == sales_by_country.rows
        IN /\ StrictlyDescending(rows, "TotalSales")
           /\ \A c \in SellingCountries : Cardinality(RowsOf(rows, "Country", c)) = 1
           /\ \A i \in 1..Len(rows) :
                rows[i].TotalOrders = Cardinality(OrdersWithItems(rows[i].Country))

\* C6 (amended): one row per country (the missing country being one) that has
\* an order with a line item and no other row, total_sales descending with
\* equal neighbours allowed, total_orders the number of the country's orders
\* that have a line item.
C6_OneRowPerSellingCountryDescending ==
    Returned("sales_by_country") =>
        LET rows == sales_by_country.rows
        IN /\ Descending(rows, "TotalSales")
           /\ \A i \in DOMAIN Customer :
                Cardinality(RowsOf(rows, "Country", Customer[i].Country)) =
                    (IF OrdersWithItems(Customer[i].Country) # {} THEN 1 ELSE 0)
           /\ \A i \in 1..Len(rows) :
                /\ OrdersWithItems(rows[i].Country) # {}
                /\ rows[i].TotalOrders = Cardinality(OrdersWithItems(rows[i].Country))

\* C6 witness: two countries of equal total sales, one of them the missing
\* country, each with one order that has line items
C6_Witness ==
    /\ Returned("sales_by_country")
    /\ Len(sales_by_country.rows) = 2
    /\ sales_by_country.rows[1].TotalSales = sales_by_country.rows[2].TotalSales
    /\ \E i \in 1..2 : sales_by_country.rows[i].Country = NULL
    /\ \A i \in 1..2 : sales_by_country.rows[i].TotalOrders = 1

\* The product names that have a line item, and the quantity sold under a name
SoldNames ==
    {Product[OrderDetail[d].ProductId].ProductName :
        d \in {x \in DOMAIN OrderDetail : OrderDetail[x].ProductId \in DOMAIN Product}}

SoldOf(name) ==
    SumQuantity({d \in DOMAIN OrderDetail :
                    /\ OrderDetail[d].ProductId \in DOMAIN Product
                    /\ Product[OrderDetail[d].ProductId].ProductName = name})

\* C7: load_top_selling_products() returns at most 10 rows, descending by
\* total_sold, each the total of a product sold, and no product left out was
\* sold more than a product returned.
C7_TopTenBySold ==
    Returned("top_selling_products") =>
        LET rows == top_selling_products.rows
            names == {rows[i].ProductName : i \in 1..Len(rows)}
        IN /\ Len(rows) <= 10
           /\ Len(rows) = (IF Cardinality(SoldNames) <= 10 THEN Cardinality(SoldNames) ELSE 10)
           /\ Descending(rows, "TotalSold")
           /\ Cardinality(names) = Len(rows)
           /\ names \subseteq SoldNames
           /\ \A i \in 1..Len(rows) : rows[i].TotalSold = SoldOf(rows[i].ProductName)
           /\ \A out \in SoldNames \ names : \A i \in 1..Len(rows) :
                SoldOf(out) <= rows[i].TotalSold

\* C7 witness: more than ten products sold, ten returned, the last one returned
\* sold as often as one left out
C7_Witness ==
    /\ Returned("top_selling_products")
    /\ Cardinality(SoldNames) > 10
    /\ Len(top_selling_products.rows) = 10
    /\ top_selling_products.rows[1].TotalSold > top_selling_products.rows[10].TotalSold
    /\ \E out \in SoldNames :
         /\ \A i \in 1..10 : top_selling_products.rows[i].ProductName # out
         /\ SoldOf(out) = top_selling_products.rows[10].TotalSold

\* The line items of the categories named k
ItemsOfCategory(k) ==
    {d \in DOMAIN OrderDetail :
        /\ OrderDetail[d].ProductId \in DOMAIN Product
        /\ Product[OrderDetail[d].ProductId].CategoryId \in DOMAIN Category
        /\ Category[Product[OrderDetail[d].ProductId].CategoryId].CategoryName = k}

RECURSIVE NetOf(_)
\* The sum over line items S of price x quantity x (1 - discount), in ten-thousandths
NetOf(S) ==
    IF S = {} THEN 0
    ELSE LET d == CHOOSE x \in S : TRUE
         IN OrderDetail[d].UnitPrice * OrderDetail[d].Quantity
                * (100 - OrderDetail[d].Discount) + NetOf(S \ {d})

\* C8 (as claimed): one row per category, its profit the sum of price x quantity
\* less the sum of price x quantity x discount, rows descending by profit.
\* Categories are read as the category names with line items, the only ones
\* the query joins.
C8_ProfitIsExactDifference ==
    Returned("profit_by_category") =>
        LET rows == profit_by_category.rows
        IN /\ Descending(rows, "Profit")
           /\ \A k \in DOMAIN Category :
                ItemsOfCategory(Category[k].CategoryName) # {} =>
                    Cardinality(RowsOf(rows, "CategoryName", Category[k].CategoryName)) = 1
           /\ \A i \in 1..Len(rows) :
                100 * rows[i].Profit = NetOf(ItemsOfCategory(rows[i].CategoryName))

\* C8 (amended): one row per category name that has a line item and no other
\* row, its profit that difference rounded to 2 decimals, rows descending by
\* the rounded profit.
C8_ProfitIsRoundedDifference ==
    Returned("profit_by_category") =>
        LET rows == profit_by_category.rows
        IN /\ Descending(rows, "Profit")
           /\ \A k \in DOMAIN Category :
                Cardinality(RowsOf(rows, "CategoryName", Category[k].CategoryName)) =
                    (IF ItemsOfCategory(Category[k].CategoryName) # {} THEN 1 ELSE 0)
           /\ \A i \in 1..Len(rows) :
                LET exact == NetOf(ItemsOfCategory(rows[i].CategoryName))
                IN /\ ItemsOfCategory(rows[i].CategoryName) # {}
                   /\ 100 * rows[i].Profit - 50 <= exact
                   /\ exact < 100 * rows[i].Profit + 50

\* C8 witness: two categories with line items, the profit of one of them
\* changed by the rounding
C8_Witness ==
    /\ Returned("profit_by_category")
    /\ Len(profit_by_category.rows) = 2
    /\ \E i \in 1..2 :
         100 * profit_by_category.rows[i].Profit #
             NetOf(ItemsOfCategory(profit_by_category.rows[i].CategoryName))

=============================================================================
